---- MODULE Spec2Model ----
(***************************************************************************)
(* The three sample scripts of media-services-v3-python as one state       *)
(* machine: AnalyzeVideoAndAudios/Program.py ("analyze"),                  *)
(* EncryptWithAES/Program.py ("encrypt") and Live/Program.py ("live").     *)
(* Each script is a sequential orchestration of calls to the remote media  *)
(* service; the remote service's resources are part of the state, and each *)
(* remote call either returns or raises.                                   *)
(***************************************************************************)
EXTENDS Integers, Sequences, FiniteSets, TLC

VARIABLES
    script,          \* which Program.run is executing
    pc,              \* position of run
    exc,             \* exception in flight / propagated: "none", "ApiError", "Other"
    in_try,          \* live: control is inside the try block of run
    caught,          \* live: the except clause caught and printed an ApiErrorException
    try_exc,         \* live: the exception a statement of the try block raised
    raised_at,       \* the position of the statement whose exception left run
    calls,           \* remote calls issued so far (poll fetches and sleeps are counted, not logged)
    uniqueness,      \* str(uuid.uuid1()) of run
    token_sign_key,  \* self.token_sign_key = urandom(40)
    claim_type,      \* settings.ini CONTENT_KEY_IDENTIFIER_CLAIM_TYPE
    assets,          \* remote: names of the assets of the account
    transforms,      \* remote: transform name -> preset, the transforms of the account
    jobs,            \* remote: job name -> state, the jobs of the transform
    locators,        \* remote: names of the streaming locators
    policy,          \* remote: the content key policy of the configured name (its key), or None
    live_event,      \* remote: resource state of the run's live event
    live_outputs,    \* remote: names of the live outputs of the live event
    endpoint,        \* remote: resource state of the "default" streaming endpoint
    output_asset,    \* local of run: name of the asset create_output_asset returned
    job,             \* local: state of the job last fetched by wait_for_job_to_finish
    gets,            \* number of jobs.get / live_events.get fetches of the poll loop
    sleeps,          \* number of time.sleep calls of the poll loop
    coa,             \* history of create_output_asset invocations
    token,           \* local of run: what get_token returned
    todo,            \* clean_up: the items of the list being iterated not yet deleted
    ret,             \* live: where clean_up_live_event_and_live_output returns to
    paths,           \* live: list_paths returned at least one streaming path
    pauses,          \* number of input() pauses performed
    n_clean_up,      \* invocations of clean_up (analyze, encrypt)
    n_clean_event,   \* invocations of clean_up_live_event_and_live_output
    n_clean_locator  \* invocations of clean_up_locator_and_asset

config  == <<script, token_sign_key, claim_type>>
control == <<pc, exc, in_try, caught, try_exc, raised_at>>
remote  == <<assets, transforms, jobs, locators, policy, live_event, live_outputs, endpoint>>
poll    == <<job, gets, sleeps>>
locals  == <<uniqueness, output_asset, coa, token, todo, ret, paths>>
counts  == <<pauses, n_clean_up, n_clean_event, n_clean_locator>>
vars    == <<config, control, calls, remote, poll, locals, counts>>

None    == <<>>         \* no resource (a get that found nothing, a local not yet assigned)
NoState == "none"       \* no job fetched yet, no policy, no endpoint

\* ---------------------------------------------------------------- bounds
MaxCount == 3        \* the poll counters saturate here
MaxCalls == 3        \* invocations of create_output_asset in SpecOutputAsset
MaxTick  == 1        \* seconds the clock may advance between two utcnow() reads

\* ---------------------------------------------------------------- program constants
SleepIntervalMs == 5
NotBeforeMinutes == -5
ExpiryHours == 1
SecondsPerMinute == 60
SecondsPerHour == 3600

\* ---------------------------------------------------------------- values
Scripts  == {"analyze", "encrypt", "live"}
Outcomes == {"ok", "ApiError", "Other"}     \* a remote call returns, or raises
Uuids    == {"u1"}
Keys     == {"k1", "k2"}
Issuer   == "myIssuer"
Audience == "myAudience"
ClaimTypes == {"urn:microsoft:azure:mediaservices:contentkeyidentifier", "iss", "exp"}
Clock    == {1000}

\* JobState of azure.mgmt.media.models, as the data model lists it
JobStates == {"queued", "processing", "finished", "error", "canceled"}

\* Names are strings, modelled as sequences of pieces so that + is concatenation.
Name(prefix, u) == <<prefix, u>>
transform_name == <<"TRANSFORM_NAME">>
content_key_policy_name == <<"CONTENT_KEY_POLICY_NAME">>
DefaultStreamingEndpointName == <<"default">>

job_name          == Name("job-", uniqueness)
locator_name      == Name("locator-", uniqueness)
output_asset_name == Name("output-", uniqueness)
input_asset_name  == Name("input-", uniqueness)

Sat(n) == IF n < MaxCount THEN n + 1 ELSE n

Call(op, arg, res) == [op |-> op, arg |-> arg, res |-> res]
Log(op, arg, res)  == calls' = Append(calls, Call(op, arg, res))

\* ---------------------------------------------------------------- control flow
Goto(p) == pc' = p /\ UNCHANGED <<exc, in_try, caught, try_exc, raised_at>>

\* faulty variant: the except clause catches every exception
Throw_CatchAll(e) ==
    /\ exc' = e
    /\ caught' = caught
    /\ in_try' = FALSE
    /\ try_exc' = IF in_try THEN e ELSE try_exc
    /\ raised_at' = IF in_try THEN raised_at ELSE pc
    /\ pc' = IF in_try THEN "except" ELSE "raised"

\* An exception e leaves the current statement. Inside the try block of the live
\* run an ApiErrorException goes to the except clause and anything else straight
\* to the finally block, still in flight; everywhere else it leaves run.
Throw(e) ==
    /\ exc' = e
    /\ caught' = caught
    /\ in_try' = FALSE
    /\ try_exc' = IF in_try THEN e ELSE try_exc
    /\ raised_at' = IF in_try THEN raised_at ELSE pc
    /\ pc' = IF in_try
             THEN (IF e = "ApiError" THEN "except" ELSE "finally")
             ELSE "raised"

\* ---------------------------------------------------------------- remote job lifecycle
\* faulty variants of the exit test: canceled forgotten; processing taken for done
JobIsDone_NoCanceled(state) == state \in {"finished", "error"}
JobIsDone_Processing(state) == state \in {"finished", "error", "canceled", "processing"}

JobIsDone(state) == state \in {"finished", "error", "canceled"}

JobSuccessors(state) ==
    CASE state = "queued"     -> {"processing", "canceled"}
      [] state = "processing" -> {"finished", "error", "canceled"}
      [] OTHER                -> {}

\* The service works on a submitted job.
JobProgress ==
    /\ job_name \in DOMAIN jobs
    /\ \E s \in JobSuccessors(jobs[job_name]) :
           jobs' = [jobs EXCEPT ![job_name] = s]
    /\ UNCHANGED <<config, control, calls, poll, locals, counts,
                   assets, transforms, locators, policy, live_event, live_outputs, endpoint>>

\* ---------------------------------------------------------------- analyze and encrypt
\* run, up to the first call: the names of this run
run_names ==
    /\ pc = "run"
    /\ \E u \in Uuids : uniqueness' = u
    /\ IF script = "live"
       THEN pc' = "create_live_event" /\ in_try' = TRUE
            /\ UNCHANGED <<exc, caught, try_exc, raised_at>>
       ELSE Goto("get_or_create_transform")
    /\ UNCHANGED <<config, calls, remote, poll, counts, output_asset, coa, token, todo, ret, paths>>

\* the preset run asks for, and a preset someone else gave a transform of the
\* same name
Preset    == IF script = "analyze" THEN "VideoAnalyzerPreset" ELSE "adaptive_streaming"
OldPreset == "old_preset"

\* faulty variant: the transform is created or updated whether or not it exists
get_or_create_transform_always(name, next) ==
    /\ pc = "get_or_create_transform"
    /\ \E r1 \in Outcomes, r2 \in Outcomes :
         LET c1 == Call("transforms.get", name, r1)
             c2 == Call("transforms.create_or_update", name, r2)
         IN  IF r1 # "ok"
             THEN r2 = "ok" /\ calls' = calls \o <<c1>> /\ Throw(r1) /\ UNCHANGED transforms
             ELSE /\ calls' = calls \o <<c1, c2>>
                  /\ IF r2 = "ok"
                     THEN transforms' = [n \in DOMAIN transforms \cup {name} |->
                                            IF n = name THEN Preset ELSE transforms[n]]
                          /\ Goto(next)
                     ELSE Throw(r2) /\ UNCHANGED transforms
    /\ UNCHANGED <<config, poll, locals, counts,
                   assets, jobs, locators, policy, live_event, live_outputs, endpoint>>

get_or_create_transform(name, next) ==
    /\ pc = "get_or_create_transform"
    /\ \E r1 \in Outcomes, r2 \in Outcomes :
         LET transform == IF name \in DOMAIN transforms THEN name ELSE None
             c1 == Call("transforms.get", name, r1)
             c2 == Call("transforms.create_or_update", name, r2)
         IN  IF r1 # "ok"
             THEN r2 = "ok" /\ calls' = calls \o <<c1>> /\ Throw(r1) /\ UNCHANGED transforms
             ELSE IF transform # None
             THEN /\ r2 = "ok"
                  /\ calls' = calls \o <<c1>>
                  /\ Goto(next)
                  /\ UNCHANGED transforms
             ELSE /\ calls' = calls \o <<c1, c2>>
                  /\ IF r2 = "ok"
                     THEN transforms' = [n \in DOMAIN transforms \cup {name} |->
                                            IF n = name THEN Preset ELSE transforms[n]]
                          /\ Goto(next)
                     ELSE Throw(r2) /\ UNCHANGED transforms
    /\ UNCHANGED <<config, poll, locals, counts,
                   assets, jobs, locators, policy, live_event, live_outputs, endpoint>>

\* faulty variant: run goes from the transform straight to the output asset
run_get_or_create_transform_skip == get_or_create_transform(transform_name, "create_output_asset")

run_get_or_create_transform == get_or_create_transform(transform_name, "create_input_asset")

\* assets.create_or_update, assets.list_container_sas, then the blob upload
create_input_asset ==
    /\ pc = "create_input_asset"
    /\ \E r1 \in Outcomes, r2 \in Outcomes, r3 \in Outcomes :
         LET c1 == Call("assets.create_or_update", input_asset_name, r1)
             c2 == Call("assets.list_container_sas", input_asset_name, r2)
             c3 == Call("create_blob_from_path", input_asset_name, r3)
         IN  IF r1 # "ok"
             THEN r2 = "ok" /\ r3 = "ok"
                  /\ calls' = calls \o <<c1>> /\ Throw(r1) /\ UNCHANGED assets
             ELSE /\ assets' = assets \cup {input_asset_name}
                  /\ IF r2 # "ok"
                     THEN r3 = "ok" /\ calls' = calls \o <<c1, c2>> /\ Throw(r2)
                     ELSE /\ calls' = calls \o <<c1, c2, c3>>
                          /\ IF r3 # "ok" THEN Throw(r3) ELSE Goto("create_output_asset")
    /\ UNCHANGED <<config, poll, locals, counts,
                   transforms, jobs, locators, policy, live_event, live_outputs, endpoint>>

\* faulty variant: str(uuid.uuid1()), a fresh identifier at every call
StrUniqueness_Fresh(n) == <<ToString(n)>>

\* str(uuid.uuid1): the text of the function object, the same at every call of
\* one process (n is the number of the call)
StrUniqueness(n) == <<"<function uuid1 at 0x7f3c>">>

\* faulty variant: the collision is ignored
OutputAssetName_Requested(asset_name, output_asset_found, n) == asset_name

\* the name create_output_asset creates the asset under
OutputAssetName(asset_name, output_asset_found, n) ==
    IF output_asset_found THEN asset_name \o StrUniqueness(n) ELSE asset_name

create_output_asset(asset_name, next) ==
    /\ pc = "create_output_asset"
    /\ \E r1 \in Outcomes, r2 \in Outcomes :
         LET found  == asset_name \in assets
             target == OutputAssetName(asset_name, found, Len(coa))
             c1 == Call("assets.get", asset_name, r1)
             c2 == Call("assets.create_or_update", target, r2)
         IN  IF r1 # "ok"
             THEN /\ r2 = "ok"
                  /\ calls' = calls \o <<c1>>
                  /\ Throw(r1)
                  /\ UNCHANGED <<assets, output_asset, coa>>
             ELSE /\ calls' = calls \o <<c1, c2>>
                  /\ coa' = Append(coa, [requested |-> asset_name, found |-> found,
                                         target |-> target, existed |-> target \in assets,
                                         created |-> r2 = "ok"])
                  /\ IF r2 = "ok"
                     THEN /\ assets' = assets \cup {target}
                          /\ output_asset' = target
                          /\ Goto(next)
                     ELSE Throw(r2) /\ UNCHANGED <<assets, output_asset>>
    /\ UNCHANGED <<config, poll, counts, uniqueness, token, todo, ret, paths,
                   transforms, jobs, locators, policy, live_event, live_outputs, endpoint>>

run_create_output_asset == create_output_asset(output_asset_name, "submit_job")

\* faulty variant: the job writes to the name asked for, not to the asset
\* create_output_asset returned
submit_job_requested_name ==
    /\ pc = "submit_job"
    /\ \E r \in Outcomes :
         /\ Log("jobs.create", <<job_name, input_asset_name, output_asset_name>>, r)
         /\ IF r = "ok"
            THEN jobs' = [n \in DOMAIN jobs \cup {job_name} |->
                             IF n = job_name THEN "queued" ELSE jobs[n]]
                 /\ Goto("wait_get")
            ELSE Throw(r) /\ UNCHANGED jobs
    /\ UNCHANGED <<config, poll, locals, counts,
                   assets, transforms, locators, policy, live_event, live_outputs, endpoint>>

\* faulty variant: a failed jobs.create is issued again
submit_job_retry ==
    /\ pc = "submit_job"
    /\ \E r \in Outcomes :
         /\ Log("jobs.create", <<job_name, input_asset_name, output_asset>>, r)
         /\ Len(calls) < 12
         /\ IF r = "ok"
            THEN jobs' = [n \in DOMAIN jobs \cup {job_name} |->
                             IF n = job_name THEN "queued" ELSE jobs[n]]
                 /\ Goto("wait_get")
            ELSE Goto("submit_job") /\ UNCHANGED jobs
    /\ UNCHANGED <<config, poll, locals, counts,
                   assets, transforms, locators, policy, live_event, live_outputs, endpoint>>

submit_job ==
    /\ pc = "submit_job"
    /\ \E r \in Outcomes :
         /\ Log("jobs.create", <<job_name, input_asset_name, output_asset>>, r)
         /\ IF r = "ok"
            THEN jobs' = [n \in DOMAIN jobs \cup {job_name} |->
                             IF n = job_name THEN "queued" ELSE jobs[n]]
                 /\ Goto("wait_get")
            ELSE Throw(r) /\ UNCHANGED jobs
    /\ UNCHANGED <<config, poll, locals, counts,
                   assets, transforms, locators, policy, live_event, live_outputs, endpoint>>

\* wait_for_job_to_finish, one pass of the loop up to the break or the sleep
wait_for_job_to_finish_get ==
    /\ pc = "wait_get"
    /\ \E r \in Outcomes :
         IF r = "ok"
         THEN /\ job' = jobs[job_name]
              /\ gets' = Sat(gets)
              /\ Goto(IF JobIsDone(jobs[job_name]) THEN "job_returned" ELSE "wait_sleep")
         ELSE /\ job' = job
              /\ gets' = Sat(gets)
              /\ Throw(r)
    /\ UNCHANGED <<config, calls, remote, sleeps, locals, counts>>

\* faulty variant: the loop gives up after a number of attempts
wait_for_job_to_finish_sleep_bounded ==
    /\ pc = "wait_sleep"
    /\ sleeps' = Sat(sleeps)
    /\ Goto(IF sleeps >= 1 THEN "job_returned" ELSE "wait_get")
    /\ UNCHANGED <<config, calls, remote, job, gets, locals, counts>>

wait_for_job_to_finish_sleep ==
    /\ pc = "wait_sleep"
    /\ sleeps' = Sat(sleeps)
    /\ Goto("wait_get")
    /\ UNCHANGED <<config, calls, remote, job, gets, locals, counts>>

\* faulty variant: the state of the returned job is not looked at
run_job_returned_ungated ==
    /\ pc = "job_returned"
    /\ Goto(IF script = "analyze" THEN "download_output_asset"
                                  ELSE "get_or_create_content_key_policy")
    /\ UNCHANGED <<config, calls, remote, poll, locals, counts>>

\* run, after wait_for_job_to_finish returned: if job.state == JobState.finished
run_job_returned ==
    /\ pc = "job_returned"
    /\ Goto(IF job = "finished"
            THEN (IF script = "analyze" THEN "download_output_asset"
                                        ELSE "get_or_create_content_key_policy")
            ELSE (IF script = "analyze" THEN "done" ELSE "pause"))
    /\ UNCHANGED <<config, calls, remote, poll, locals, counts>>

\* analyze: list_container_sas, list_blobs, then the downloads
download_output_asset ==
    /\ pc = "download_output_asset"
    /\ \E r1 \in Outcomes, r2 \in Outcomes :
         LET c1 == Call("assets.list_container_sas", output_asset, r1)
             c2 == Call("list_blobs", output_asset, r2)
         IN  IF r1 # "ok"
             THEN r2 = "ok" /\ calls' = calls \o <<c1>> /\ Throw(r1)
             ELSE /\ calls' = calls \o <<c1, c2>>
                  /\ IF r2 # "ok" THEN Throw(r2) ELSE Goto("done")
    /\ UNCHANGED <<config, remote, poll, locals, counts>>

\* ---------------------------------------------------------------- encrypt
get_or_create_content_key_policy ==
    /\ pc = "get_or_create_content_key_policy"
    /\ \E r1 \in Outcomes, r2 \in Outcomes :
         LET c1 == Call("content_key_policies.get", content_key_policy_name, r1)
             c2 == Call("content_key_policies.create_or_update", content_key_policy_name, r2)
         IN  IF r1 # "ok"
             THEN r2 = "ok" /\ calls' = calls \o <<c1>> /\ Throw(r1) /\ UNCHANGED policy
             ELSE IF policy # NoState
             THEN /\ r2 = "ok"
                  /\ calls' = calls \o <<c1>>
                  /\ Goto("create_streaming_locator")
                  /\ UNCHANGED policy
             ELSE /\ calls' = calls \o <<c1, c2>>
                  /\ IF r2 = "ok"
                     THEN policy' = token_sign_key /\ Goto("create_streaming_locator")
                     ELSE Throw(r2) /\ UNCHANGED policy
    /\ UNCHANGED <<config, poll, locals, counts,
                   assets, transforms, jobs, locators, live_event, live_outputs, endpoint>>

create_streaming_locator ==
    /\ pc = "create_streaming_locator"
    /\ \E r \in Outcomes :
         /\ Log("streaming_locators.create",
                <<locator_name, output_asset, content_key_policy_name>>, r)
         /\ IF r = "ok"
            THEN locators' = locators \cup {locator_name} /\ Goto("get_token")
            ELSE Throw(r) /\ UNCHANGED locators
    /\ UNCHANGED <<config, poll, locals, counts,
                   assets, transforms, jobs, policy, live_event, live_outputs, endpoint>>

\* locator.content_keys[0].id, the key the service generated for the locator
key_identifier == Name("contentkey-", uniqueness)

\* A dict literal, keys left to right: a key written twice keeps its last value.
DictOf(items) ==
    LET keys == {items[i][1] : i \in DOMAIN items}
        last(k) == CHOOSE i \in DOMAIN items :
                      items[i][1] = k /\ \A j \in DOMAIN items : items[j][1] = k => j <= i
    IN  [k \in keys |-> items[last(k)][2]]

\* the values of a payload: a string, or a time in seconds
Str(s)  == [type |-> "str", str |-> s, time |-> 0]
Time(t) == [type |-> "datetime", str |-> <<>>, time |-> t]

\* faulty variant: the sign of the not-before offset is lost
get_token_NbfAfter(issuer, audience, key_identifier_claim_type, key_id, token_verification_key, now1, now2) ==
    [payload |-> DictOf(<< <<"iss", Str(<<issuer>>)>>,
                           <<"aud", Str(<<audience>>)>>,
                           <<key_identifier_claim_type, Str(key_id)>>,
                           <<"nbf", Time(now1 - NotBeforeMinutes * SecondsPerMinute)>>,
                           <<"exp", Time(now2 + ExpiryHours * SecondsPerHour)>> >>),
     key     |-> token_verification_key,
     alg     |-> "HS256",
     now     |-> <<now1, now2>>]

\* now1 and now2 are the two utcnow() reads of the payload
get_token(issuer, audience, key_identifier_claim_type, key_id, token_verification_key, now1, now2) ==
    [payload |-> DictOf(<< <<"iss", Str(<<issuer>>)>>,
                           <<"aud", Str(<<audience>>)>>,
                           <<key_identifier_claim_type, Str(key_id)>>,
                           <<"nbf", Time(now1 + NotBeforeMinutes * SecondsPerMinute)>>,
                           <<"exp", Time(now2 + ExpiryHours * SecondsPerHour)>> >>),
     key     |-> token_verification_key,
     alg     |-> "HS256",
     now     |-> <<now1, now2>>]

NoToken == [payload |-> DictOf(<< >>), key |-> NoState, alg |-> NoState, now |-> <<0, 0>>]

run_get_token ==
    /\ pc = "get_token"
    /\ \E now1 \in Clock : \E now2 \in now1 .. now1 + MaxTick :
         token' = get_token(Issuer, Audience, claim_type, key_identifier,
                            token_sign_key, now1, now2)
    /\ Goto("get_dash_streaming_url")
    /\ UNCHANGED <<config, calls, remote, poll, counts,
                   uniqueness, output_asset, coa, todo, ret, paths>>

\* streaming_endpoints.get, start when not running, list_paths, then the loop
\* over the paths, which reads streaming_endpoint.host_name
get_dash_streaming_url ==
    /\ pc = "get_dash_streaming_url"
    /\ \E r1 \in Outcomes, r2 \in Outcomes, r3 \in Outcomes, has_paths \in BOOLEAN :
         LET start == endpoint \notin {NoState, "running"}
             c1 == Call("streaming_endpoints.get", DefaultStreamingEndpointName, r1)
             c2 == Call("streaming_endpoints.start", DefaultStreamingEndpointName, r2)
             c3 == Call("streaming_locators.list_paths", locator_name, r3)
             upto3 == IF start THEN <<c1, c2, c3>> ELSE <<c1, c3>>
         IN  IF r1 # "ok"
             THEN /\ r2 = "ok" /\ r3 = "ok" /\ ~has_paths
                  /\ calls' = calls \o <<c1>> /\ Throw(r1)
                  /\ UNCHANGED <<endpoint, paths>>
             ELSE IF start /\ r2 # "ok"
             THEN /\ r3 = "ok" /\ ~has_paths
                  /\ calls' = calls \o <<c1, c2>> /\ Throw(r2)
                  /\ UNCHANGED <<endpoint, paths>>
             ELSE /\ ~start => r2 = "ok"
                  /\ endpoint' = IF start THEN "running" ELSE endpoint
                  /\ calls' = calls \o upto3
                  /\ IF r3 # "ok"
                     THEN ~has_paths /\ Throw(r3) /\ UNCHANGED paths
                     ELSE /\ paths' = has_paths
                          /\ IF has_paths /\ endpoint = NoState
                             THEN Throw("Other")
                             ELSE Goto("pause")
    /\ UNCHANGED <<config, poll, counts, uniqueness, output_asset, coa, token, todo, ret,
                   assets, transforms, jobs, locators, policy, live_event, live_outputs>>

\* faulty variant: clean_up is called without the pause
run_pause_skipped ==
    /\ pc = "pause"
    /\ Goto("clean_up")
    /\ UNCHANGED <<config, calls, remote, poll, locals, counts>>

\* print('clean up ...'); input('press any key to continue')
run_pause ==
    /\ pc = "pause"
    /\ pauses' = pauses + 1
    /\ \E r \in {"ok", "Other"} :
         IF r = "ok" THEN Goto("clean_up") ELSE Throw(r)
    /\ UNCHANGED <<config, calls, remote, poll, locals, n_clean_up, n_clean_event, n_clean_locator>>

\* clean_up: jobs.list and its loop of deletes, streaming_locators.list and its
\* loop, assets.list and its loop, then the policy delete
clean_up_list(op, listed, at, next) ==
    /\ pc = at
    /\ n_clean_up' = IF at = "clean_up" THEN n_clean_up + 1 ELSE n_clean_up
    /\ \E r \in Outcomes :
         /\ Log(op, None, r)
         /\ IF r = "ok"
            THEN todo' = listed /\ Goto(next)
            ELSE Throw(r) /\ UNCHANGED todo
    /\ UNCHANGED <<config, remote, poll, pauses, n_clean_event, n_clean_locator,
                   uniqueness, output_asset, coa, token, ret, paths>>

clean_up_jobs_list ==
    clean_up_list("jobs.list", DOMAIN jobs, "clean_up", "clean_up_jobs")
clean_up_locators_list ==
    clean_up_list("streaming_locators.list", locators, "clean_up_2", "clean_up_locators")
clean_up_assets_list ==
    clean_up_list("assets.list", assets, "clean_up_3", "clean_up_assets")

\* the item a list yields first: the service's order, which the program does
\* not choose
First(items) == CHOOSE x \in items : TRUE

\* faulty variant: a delete that fails is skipped and the loop goes on
clean_up_delete_best_effort(op, at, next, x, r) ==
    /\ pc = at
    /\ IF todo = {}
       THEN r = "ok" /\ Goto(next) /\ UNCHANGED <<calls, todo>>
       ELSE /\ x = First(todo)
            /\ Log(op, x, r)
            /\ todo' = todo \ {x}
            /\ Goto(at)
    /\ UNCHANGED <<config, poll, counts, uniqueness, output_asset, coa, token, ret, paths>>

\* one pass of a for loop of clean_up: the next item is deleted, or the loop ends
clean_up_delete(op, at, next, x, r) ==
    /\ pc = at
    /\ IF todo = {}
       THEN r = "ok" /\ Goto(next) /\ UNCHANGED <<calls, todo>>
       ELSE /\ x = First(todo)
            /\ Log(op, x, r)
            /\ IF r = "ok"
               THEN todo' = todo \ {x} /\ Goto(at)
               ELSE Throw(r) /\ UNCHANGED todo
    /\ UNCHANGED <<config, poll, counts, uniqueness, output_asset, coa, token, ret, paths>>

Deleted(x, r) == IF todo # {} /\ r = "ok" THEN {x} ELSE {}

clean_up_jobs ==
    \E x \in todo \cup {None}, r \in Outcomes :
        /\ clean_up_delete("jobs.delete", "clean_up_jobs", "clean_up_2", x, r)
        /\ jobs' = [n \in DOMAIN jobs \ Deleted(x, r) |-> jobs[n]]
        /\ UNCHANGED <<assets, transforms, locators, policy, live_event, live_outputs, endpoint>>

clean_up_locators ==
    \E x \in todo \cup {None}, r \in Outcomes :
        /\ clean_up_delete("streaming_locators.delete", "clean_up_locators", "clean_up_3", x, r)
        /\ locators' = locators \ Deleted(x, r)
        /\ UNCHANGED <<assets, transforms, jobs, policy, live_event, live_outputs, endpoint>>

clean_up_assets ==
    \E x \in todo \cup {None}, r \in Outcomes :
        /\ clean_up_delete("assets.delete", "clean_up_assets", "clean_up_4", x, r)
        /\ assets' = assets \ Deleted(x, r)
        /\ UNCHANGED <<transforms, jobs, locators, policy, live_event, live_outputs, endpoint>>

\* faulty variant: clean_up deletes the transform along with the policy
clean_up_policy_and_transform ==
    /\ pc = "clean_up_4"
    /\ \E r \in Outcomes :
         /\ calls' = calls \o << Call("content_key_policies.delete", content_key_policy_name, r),
                                 Call("transforms.delete", transform_name, r) >>
         /\ IF r = "ok"
            THEN /\ policy' = NoState
                 /\ transforms' = [n \in DOMAIN transforms \ {transform_name} |-> transforms[n]]
                 /\ Goto("done")
            ELSE Throw(r) /\ UNCHANGED <<policy, transforms>>
    /\ UNCHANGED <<config, poll, locals, counts,
                   assets, jobs, locators, live_event, live_outputs, endpoint>>

clean_up_policy ==
    /\ pc = "clean_up_4"
    /\ \E r \in Outcomes :
         /\ Log("content_key_policies.delete", content_key_policy_name, r)
         /\ IF r = "ok"
            THEN policy' = NoState /\ Goto("done")
            ELSE Throw(r) /\ UNCHANGED policy
    /\ UNCHANGED <<config, poll, locals, counts,
                   assets, transforms, jobs, locators, live_event, live_outputs, endpoint>>

\* ---------------------------------------------------------------- live
live_event_name        == Name("liveevent-", uniqueness)
asset_name             == Name("archiveasset-", uniqueness)
live_output_name       == Name("liveoutput-", uniqueness)
streaming_locator_name == Name("streaminglocator-", uniqueness)

\* live_events.get returns None for an event that is not there (yet)
LiveEventFound == live_event \notin {"absent", "creating"}

\* The service brings up a created live event (auto_start).
LiveEventProgress ==
    /\ live_event \in {"creating", "starting"}
    /\ live_event' = IF live_event = "creating" THEN "starting" ELSE "running"
    /\ UNCHANGED <<config, control, calls, poll, locals, counts,
                   assets, transforms, jobs, locators, policy, live_outputs, endpoint>>

\* mediaservices.get, then live_events.create with auto_start
create_live_event ==
    /\ pc = "create_live_event"
    /\ \E r1 \in Outcomes, r2 \in Outcomes :
         LET c1 == Call("mediaservices.get", None, r1)
             c2 == Call("live_events.create", live_event_name, r2)
         IN  IF r1 # "ok"
             THEN r2 = "ok" /\ calls' = calls \o <<c1>> /\ Throw(r1) /\ UNCHANGED live_event
             ELSE /\ calls' = calls \o <<c1, c2>>
                  /\ IF r2 = "ok"
                     THEN live_event' = "creating" /\ Goto("live_event_get")
                     ELSE Throw(r2) /\ UNCHANGED live_event
    /\ UNCHANGED <<config, poll, locals, counts,
                   assets, transforms, jobs, locators, policy, live_outputs, endpoint>>

\* faulty variant: the loop is left after the first fetch, event or not
run_live_event_get_once ==
    /\ pc = "live_event_get"
    /\ gets' = Sat(gets)
    /\ \E r \in Outcomes :
         IF r = "ok" THEN Goto("live_event_endpoints") ELSE Throw(r)
    /\ UNCHANGED <<config, calls, remote, job, sleeps, locals, counts>>

\* one pass of the while loop of run, up to the break or the sleep
run_live_event_get ==
    /\ pc = "live_event_get"
    /\ gets' = Sat(gets)
    /\ \E r \in Outcomes :
         IF r = "ok"
         THEN Goto(IF LiveEventFound THEN "live_event_endpoints" ELSE "live_event_sleep")
         ELSE Throw(r)
    /\ UNCHANGED <<config, calls, remote, job, sleeps, locals, counts>>

run_live_event_sleep ==
    /\ pc = "live_event_sleep"
    /\ sleeps' = Sat(sleeps)
    /\ Goto("live_event_get")
    /\ UNCHANGED <<config, calls, remote, job, gets, locals, counts>>

\* live_event.input.endpoints[0].url and live_event.preview.endpoints[0].url:
\* an event without endpoints yet raises IndexError
run_live_event_endpoints ==
    /\ pc = "live_event_endpoints"
    /\ \E r \in {"ok", "Other"} :
         IF r = "ok" THEN Goto("create_archive_asset") ELSE Throw(r)
    /\ UNCHANGED <<config, calls, remote, poll, locals, counts>>

run_create_archive_asset ==
    /\ pc = "create_archive_asset"
    /\ \E r \in Outcomes :
         /\ Log("assets.create_or_update", asset_name, r)
         /\ IF r = "ok"
            THEN assets' = assets \cup {asset_name} /\ Goto("create_live_output")
            ELSE Throw(r) /\ UNCHANGED assets
    /\ UNCHANGED <<config, poll, locals, counts,
                   transforms, jobs, locators, policy, live_event, live_outputs, endpoint>>

run_create_live_output ==
    /\ pc = "create_live_output"
    /\ \E r \in Outcomes :
         /\ Log("live_outputs.create", <<live_event_name, live_output_name, asset_name>>, r)
         /\ IF r = "ok"
            THEN live_outputs' = live_outputs \cup {live_output_name}
                 /\ Goto("create_locator")
            ELSE Throw(r) /\ UNCHANGED live_outputs
    /\ UNCHANGED <<config, poll, locals, counts,
                   assets, transforms, jobs, locators, policy, live_event, endpoint>>

run_create_locator ==
    /\ pc = "create_locator"
    /\ \E r \in Outcomes :
         /\ Log("streaming_locators.create", <<streaming_locator_name, asset_name>>, r)
         /\ IF r = "ok"
            THEN locators' = locators \cup {streaming_locator_name}
                 /\ Goto("streaming_endpoint")
            ELSE Throw(r) /\ UNCHANGED locators
    /\ UNCHANGED <<config, poll, locals, counts,
                   assets, transforms, jobs, policy, live_event, live_outputs, endpoint>>

\* faulty variant: the paths are listed without starting a stopped endpoint
run_streaming_endpoint_no_start ==
    /\ pc = "streaming_endpoint"
    /\ \E r1 \in Outcomes :
         LET c1 == Call("streaming_endpoints.get", DefaultStreamingEndpointName, r1)
         IN  /\ calls' = calls \o <<c1>>
             /\ IF r1 # "ok" THEN Throw(r1)
                ELSE IF endpoint = NoState THEN Throw("Other")
                ELSE Goto("list_paths")
    /\ UNCHANGED <<config, poll, locals, counts, remote>>

\* streaming_endpoints.get, then start when the endpoint is not running; the
\* resource_state of an endpoint that is not there raises AttributeError
run_streaming_endpoint ==
    /\ pc = "streaming_endpoint"
    /\ \E r1 \in Outcomes, r2 \in Outcomes :
         LET c1 == Call("streaming_endpoints.get", DefaultStreamingEndpointName, r1)
             c2 == Call("streaming_endpoints.start", DefaultStreamingEndpointName, r2)
         IN  IF r1 # "ok"
             THEN r2 = "ok" /\ calls' = calls \o <<c1>> /\ Throw(r1) /\ UNCHANGED endpoint
             ELSE IF endpoint = NoState
             THEN r2 = "ok" /\ calls' = calls \o <<c1>> /\ Throw("Other")
                  /\ UNCHANGED endpoint
             ELSE IF endpoint = "running"
             THEN r2 = "ok" /\ calls' = calls \o <<c1>> /\ Goto("list_paths")
                  /\ UNCHANGED endpoint
             ELSE /\ calls' = calls \o <<c1, c2>>
                  /\ IF r2 = "ok"
                     THEN endpoint' = "running" /\ Goto("list_paths")
                     ELSE Throw(r2) /\ UNCHANGED endpoint
    /\ UNCHANGED <<config, poll, locals, counts,
                   assets, transforms, jobs, locators, policy, live_event, live_outputs>>

\* list_paths, the loop that builds string_builder, and the branch on its length
run_list_paths ==
    /\ pc = "list_paths"
    /\ \E r \in Outcomes, has_paths \in BOOLEAN :
         /\ Log("streaming_locators.list_paths", streaming_locator_name, r)
         /\ IF r # "ok"
            THEN ~has_paths /\ Throw(r) /\ UNCHANGED paths
            ELSE /\ paths' = has_paths
                 /\ IF has_paths
                    THEN Goto("pause_stop")
                    ELSE pc' = "finally" /\ in_try' = FALSE
                         /\ UNCHANGED <<exc, caught, try_exc, raised_at>>
    /\ UNCHANGED <<config, remote, poll, counts,
                   uniqueness, output_asset, coa, token, todo, ret>>

\* input('Press enter to stop the LiveOutput...'), then the call of
\* clean_up_live_event_and_live_output inside the try block
run_pause_stop ==
    /\ pc = "pause_stop"
    /\ pauses' = pauses + 1
    /\ \E r \in {"ok", "Other"} :
         IF r = "ok"
         THEN Goto("clean_up_live_event") /\ ret' = "pause_finish"
         ELSE Throw(r) /\ UNCHANGED ret
    /\ UNCHANGED <<config, calls, remote, poll, n_clean_up, n_clean_event, n_clean_locator,
                   uniqueness, output_asset, coa, token, todo, paths>>

\* faulty variant: an event that is there is stopped whatever its state
clean_up_live_event_and_live_output_always_stop ==
    /\ pc = "clean_up_live_event"
    /\ n_clean_event' = n_clean_event + 1
    /\ \E r1 \in Outcomes, r2 \in Outcomes, r3 \in Outcomes :
         LET running == LiveEventFound
             c1 == Call("live_events.get", live_event_name, r1)
             c2 == Call("live_events.stop", live_event_name, r2)
             c3 == Call("live_events.delete", live_event_name, r3)
         IN  IF r1 # "ok"
             THEN /\ r2 = "ok" /\ r3 = "ok"
                  /\ calls' = calls \o <<c1>> /\ Throw(r1)
                  /\ UNCHANGED <<live_event, live_outputs>>
             ELSE IF ~LiveEventFound
             THEN /\ r2 = "ok" /\ r3 = "ok"
                  /\ calls' = calls \o <<c1>> /\ Goto(ret)
                  /\ UNCHANGED <<live_event, live_outputs>>
             ELSE IF running /\ r2 # "ok"
             THEN /\ r3 = "ok"
                  /\ calls' = calls \o <<c1, c2>> /\ Throw(r2)
                  /\ UNCHANGED <<live_event, live_outputs>>
             ELSE /\ ~running => r2 = "ok"
                  /\ calls' = calls \o (IF running THEN <<c1, c2, c3>> ELSE <<c1, c3>>)
                  /\ IF r3 = "ok"
                     THEN live_event' = "absent" /\ live_outputs' = {} /\ Goto(ret)
                     ELSE /\ live_event' = IF running THEN "stopped" ELSE live_event
                          /\ live_outputs' = IF running THEN {} ELSE live_outputs
                          /\ Throw(r3)
    /\ UNCHANGED <<config, poll, locals, pauses, n_clean_up, n_clean_locator,
                   assets, transforms, jobs, locators, policy, endpoint>>

\* live_events.get; for an event that is there: stop (with its live outputs)
\* when it is running, then delete
clean_up_live_event_and_live_output ==
    /\ pc = "clean_up_live_event"
    /\ n_clean_event' = n_clean_event + 1
    /\ \E r1 \in Outcomes, r2 \in Outcomes, r3 \in Outcomes :
         LET running == live_event = "running"
             c1 == Call("live_events.get", live_event_name, r1)
             c2 == Call("live_events.stop", live_event_name, r2)
             c3 == Call("live_events.delete", live_event_name, r3)
         IN  IF r1 # "ok"
             THEN /\ r2 = "ok" /\ r3 = "ok"
                  /\ calls' = calls \o <<c1>> /\ Throw(r1)
                  /\ UNCHANGED <<live_event, live_outputs>>
             ELSE IF ~LiveEventFound
             THEN /\ r2 = "ok" /\ r3 = "ok"
                  /\ calls' = calls \o <<c1>> /\ Goto(ret)
                  /\ UNCHANGED <<live_event, live_outputs>>
             ELSE IF running /\ r2 # "ok"
             THEN /\ r3 = "ok"
                  /\ calls' = calls \o <<c1, c2>> /\ Throw(r2)
                  /\ UNCHANGED <<live_event, live_outputs>>
             ELSE /\ ~running => r2 = "ok"
                  /\ calls' = calls \o (IF running THEN <<c1, c2, c3>> ELSE <<c1, c3>>)
                  /\ IF r3 = "ok"
                     THEN live_event' = "absent" /\ live_outputs' = {} /\ Goto(ret)
                     ELSE /\ live_event' = IF running THEN "stopped" ELSE live_event
                          /\ live_outputs' = IF running THEN {} ELSE live_outputs
                          /\ Throw(r3)
    /\ UNCHANGED <<config, poll, locals, pauses, n_clean_up, n_clean_locator,
                   assets, transforms, jobs, locators, policy, endpoint>>

\* input('Press enter to finish cleanup...'); the try block ends
run_pause_finish ==
    /\ pc = "pause_finish"
    /\ pauses' = pauses + 1
    /\ \E r \in {"ok", "Other"} :
         IF r = "ok"
         THEN pc' = "finally" /\ in_try' = FALSE
                         /\ UNCHANGED <<exc, caught, try_exc, raised_at>>
         ELSE Throw(r)
    /\ UNCHANGED <<config, calls, remote, poll, locals, n_clean_up, n_clean_event, n_clean_locator>>

\* except ApiErrorException as ex: print
run_except ==
    /\ pc = "except"
    /\ caught' = TRUE
    /\ exc' = "none"
    /\ pc' = "finally"
    /\ UNCHANGED <<in_try, try_exc, raised_at, config, calls, remote, poll, locals, counts>>

\* faulty variant: the finally block skips the live event cleanup when the try block
\* has already called it
run_finally_once ==
    /\ pc = "finally"
    /\ ret' = "clean_up_locator"
    /\ Goto(IF n_clean_event > 0 THEN "clean_up_locator" ELSE "clean_up_live_event")
    /\ UNCHANGED <<config, calls, remote, poll, counts,
                   uniqueness, output_asset, coa, token, todo, paths>>

\* finally: the first statement calls clean_up_live_event_and_live_output
run_finally ==
    /\ pc = "finally"
    /\ ret' = "clean_up_locator"
    /\ Goto("clean_up_live_event")
    /\ UNCHANGED <<config, calls, remote, poll, counts,
                   uniqueness, output_asset, coa, token, todo, paths>>

\* streaming_locators.delete then assets.delete; it is the last statement of
\* the finally block, after which an exception still in flight is raised again
clean_up_locator_and_asset ==
    /\ pc = "clean_up_locator"
    /\ n_clean_locator' = n_clean_locator + 1
    /\ \E r1 \in Outcomes, r2 \in Outcomes :
         LET c1 == Call("streaming_locators.delete", streaming_locator_name, r1)
             c2 == Call("assets.delete", asset_name, r2)
         IN  IF r1 # "ok"
             THEN r2 = "ok" /\ calls' = calls \o <<c1>> /\ Throw(r1)
                  /\ UNCHANGED <<locators, assets>>
             ELSE /\ calls' = calls \o <<c1, c2>>
                  /\ locators' = locators \ {streaming_locator_name}
                  /\ IF r2 = "ok"
                     THEN /\ assets' = assets \ {asset_name}
                          /\ Goto(IF exc = "none" THEN "done" ELSE "raised")
                     ELSE Throw(r2) /\ UNCHANGED assets
    /\ UNCHANGED <<config, poll, locals, pauses, n_clean_up, n_clean_event,
                   transforms, jobs, policy, live_event, live_outputs, endpoint>>

\* ---------------------------------------------------------------- the program
\* what may be in the account before the run: assets under the names the run
\* will ask for, and the asset, job and locator an earlier run left behind
Colliding ==
    {Name("output-", u) : u \in Uuids}
        \cup {Name("output-", u) \o StrUniqueness(0) : u \in Uuids}
OldAsset   == Name("output-", "old")
OldJob     == Name("job-", "old")
OldLocator == Name("locator-", "old")
OldKey     == "k0"

Init ==
    /\ script \in Scripts
    /\ pc = "run"
    /\ exc = "none"
    /\ in_try = FALSE
    /\ caught = FALSE
    /\ try_exc = "none"
    /\ raised_at = "none"
    /\ calls = << >>
    /\ uniqueness = "unset"
    /\ IF script = "encrypt"
       THEN /\ token_sign_key \in Keys
            /\ claim_type \in ClaimTypes
            /\ policy \in {NoState, OldKey}
       ELSE /\ token_sign_key = NoState
            /\ claim_type = NoState
            /\ policy = NoState
    /\ \E old \in BOOLEAN :
         /\ \E S \in SUBSET Colliding :
              assets = IF script = "live" THEN (IF old THEN {OldAsset} ELSE {})
                       ELSE S \cup (IF old THEN {OldAsset} ELSE {})
         /\ jobs = [n \in (IF old /\ script # "live" THEN {OldJob} ELSE {}) |-> "finished"]
         /\ locators = IF old THEN {OldLocator} ELSE {}
    /\ transforms \in {<< >>} \cup {[n \in {transform_name} |-> p] : p \in {Preset, OldPreset}}
    /\ script = "live" => transforms = << >>
    /\ live_event = "absent"
    /\ live_outputs = {}
    /\ endpoint \in {NoState, "stopped", "running"}
    /\ script = "analyze" => endpoint = "running"
    /\ output_asset = None
    /\ job = NoState
    /\ gets = 0
    /\ sleeps = 0
    /\ coa = << >>
    /\ token = NoToken
    /\ todo = {}
    /\ ret = "unset"
    /\ paths = FALSE
    /\ pauses = 0
    /\ n_clean_up = 0
    /\ n_clean_event = 0
    /\ n_clean_locator = 0

Next ==
    \/ run_names
    \/ run_get_or_create_transform
    \/ create_input_asset
    \/ run_create_output_asset
    \/ submit_job
    \/ JobProgress
    \/ wait_for_job_to_finish_get
    \/ wait_for_job_to_finish_sleep
    \/ run_job_returned
    \/ download_output_asset
    \/ get_or_create_content_key_policy
    \/ create_streaming_locator
    \/ run_get_token
    \/ get_dash_streaming_url
    \/ run_pause
    \/ clean_up_jobs_list
    \/ clean_up_jobs
    \/ clean_up_locators_list
    \/ clean_up_locators
    \/ clean_up_assets_list
    \/ clean_up_assets
    \/ clean_up_policy
    \/ create_live_event
    \/ LiveEventProgress
    \/ run_live_event_get
    \/ run_live_event_sleep
    \/ run_live_event_endpoints
    \/ run_create_archive_asset
    \/ run_create_live_output
    \/ run_create_locator
    \/ run_streaming_endpoint
    \/ run_list_paths
    \/ run_pause_stop
    \/ clean_up_live_event_and_live_output
    \/ run_pause_finish
    \/ run_except
    \/ run_finally
    \/ clean_up_locator_and_asset

Spec == Init /\ [][Next]_vars

\* create_output_asset called again and again by one process, on an account
\* that may hold assets under the requested names and their fallback names
RequestedNames == {Name("output-", "u1"), Name("output-", "u2")}

InitOutputAsset ==
    /\ script = "analyze"
    /\ pc = "create_output_asset"
    /\ exc = "none"
    /\ in_try = FALSE
    /\ caught = FALSE
    /\ try_exc = "none"
    /\ raised_at = "none"
    /\ calls = << >>
    /\ uniqueness = "u1"
    /\ token_sign_key = NoState
    /\ claim_type = NoState
    /\ assets \in SUBSET (RequestedNames \cup {n \o StrUniqueness(0) : n \in RequestedNames})
    /\ transforms = [n \in {transform_name} |-> Preset]
    /\ jobs = << >>
    /\ locators = {}
    /\ policy = NoState
    /\ live_event = "absent"
    /\ live_outputs = {}
    /\ endpoint = "running"
    /\ output_asset = None
    /\ job = NoState
    /\ gets = 0
    /\ sleeps = 0
    /\ coa = << >>
    /\ token = NoToken
    /\ todo = {}
    /\ ret = "unset"
    /\ paths = FALSE
    /\ pauses = 0
    /\ n_clean_up = 0
    /\ n_clean_event = 0
    /\ n_clean_locator = 0

NextOutputAsset ==
    /\ Len(coa) < MaxCalls
    /\ \E n \in RequestedNames : create_output_asset(n, "create_output_asset")

SpecOutputAsset == InitOutputAsset /\ [][NextOutputAsset]_vars

\* get_or_create_transform called again and again by one caller, each call
\* after the one before it returned, on an account that may hold transforms
\* under the names asked for
TransformNames == {transform_name, <<"OTHER_TRANSFORM_NAME">>}

InitTransform ==
    /\ script \in {"analyze", "encrypt"}
    /\ pc = "get_or_create_transform"
    /\ exc = "none"
    /\ in_try = FALSE
    /\ caught = FALSE
    /\ try_exc = "none"
    /\ raised_at = "none"
    /\ calls = << >>
    /\ uniqueness = "u1"
    /\ token_sign_key = NoState
    /\ claim_type = NoState
    /\ assets = {}
    /\ transforms \in UNION {[S -> {Preset, OldPreset}] : S \in SUBSET TransformNames}
    /\ jobs = << >>
    /\ locators = {}
    /\ policy = NoState
    /\ live_event = "absent"
    /\ live_outputs = {}
    /\ endpoint = "running"
    /\ output_asset = None
    /\ job = NoState
    /\ gets = 0
    /\ sleeps = 0
    /\ coa = << >>
    /\ token = NoToken
    /\ todo = {}
    /\ ret = "unset"
    /\ paths = FALSE
    /\ pauses = 0
    /\ n_clean_up = 0
    /\ n_clean_event = 0
    /\ n_clean_locator = 0

NextTransform ==
    /\ Cardinality({i \in DOMAIN calls : calls[i].op = "transforms.get"}) < MaxCalls
    /\ \E n \in TransformNames : get_or_create_transform(n, "get_or_create_transform")

SpecTransform == InitTransform /\ [][NextTransform]_vars

\* The statements of a sequential program run on: the poll loop takes its next
\* step, and time.sleep returns.
FairSpec ==
    /\ Spec
    /\ WF_vars(wait_for_job_to_finish_get)
    /\ WF_vars(wait_for_job_to_finish_sleep)

\* ---------------------------------------------------------------- claims
\* the states the claims call terminal
TerminalStates == {"finished", "error", "canceled"}

\* control is inside the loop of wait_for_job_to_finish
Polling == pc \in {"wait_get", "wait_sleep"}

\* C1: once the remote job is in a terminal state while wait_for_job_to_finish
\* polls it, the loop ends and returns the job in that state (or a jobs.get
\* raised, which reports no state).
C1_PollTerminates ==
    (Polling /\ jobs[job_name] \in TerminalStates)
        ~> ((pc = "job_returned" /\ job = jobs[job_name]) \/ exc # "none")

C1_Witness ==
    pc = "job_returned" /\ job = "canceled" /\ sleeps = 2

\* C2: wait_for_job_to_finish returns only a job in a terminal state; the loop
\* is left at the first fetch that reports one, with no fetch and no sleep after
\* it; every fetch of another state is followed by exactly one sleep before the
\* next fetch, so that the fetches are the sleeps plus one.
C2_PollSafety ==
    script # "live" =>
        /\ pc = "job_returned" => job \in TerminalStates
        /\ job \in TerminalStates => ~Polling /\ (gets < MaxCount => gets = sleeps + 1)
        /\ pc = "wait_sleep" => job \notin TerminalStates
                                /\ (gets < MaxCount => gets = sleeps + 1)
        /\ pc = "wait_get" => (gets < MaxCount => gets = sleeps)

C2_Witness ==
    pc = "clean_up" /\ job = "error" /\ gets = 2 /\ sleeps = 1

\* C3: a run that reaches the poll loop, whose job is never in a terminal state
\* while it is polled and in which nothing raises, never returns from
\* wait_for_job_to_finish and issues jobs.get again and again.
C3_UnboundedPolling ==
    (<>Polling /\ [](Polling => jobs[job_name] \notin TerminalStates) /\ [](exc = "none"))
        => ([]<>(pc = "wait_get") /\ [](pc # "job_returned"))

C3_Witness ==
    pc = "wait_get" /\ gets = MaxCount /\ sleeps = MaxCount /\ job = "processing"

\* run has ended: it returned, or an exception left it
EndOfRun == pc \in {"done", "raised"}

\* C4 (as stated): at the end of every live run each of the two cleanup
\* operations has been invoked exactly once.
C4_ExactlyOnce ==
    (script = "live" /\ EndOfRun) => (n_clean_event = 1 /\ n_clean_locator = 1)

\* C4 (amended): at the end of every live run clean_up_live_event_and_live_output
\* has been invoked once or twice: once when no streaming paths were found,
\* twice when paths were found and the run ends without any exception;
\* clean_up_locator_and_asset has been invoked at most once, and exactly once
\* unless the clean_up_live_event_and_live_output of the finally block raised.
C4_CleanupCounts ==
    (script = "live" /\ EndOfRun) =>
        /\ n_clean_event \in {1, 2}
        /\ ~paths => n_clean_event = 1
        /\ (paths /\ pc = "done" /\ try_exc = "none") => n_clean_event = 2
        /\ n_clean_locator \in {0, 1}
        /\ n_clean_locator = 1 <=> raised_at # "clean_up_live_event"

C4_Witness ==
    script = "live" /\ pc = "done" /\ paths /\ n_clean_event = 2 /\ n_clean_locator = 1

\* the cleanup of the script has been invoked
CleanupInvoked ==
    IF script = "live" THEN n_clean_event >= 1 ELSE n_clean_up >= 1

\* C5 (as stated): every execution of run, in each of the three scripts, has
\* invoked the script's cleanup by the time it ends.
C5_CleanupAlwaysInvoked ==
    EndOfRun => CleanupInvoked

\* a resource this run created is still in the account
Leftover ==
    \/ {input_asset_name, output_asset, asset_name} \cap assets # {}
    \/ job_name \in DOMAIN jobs
    \/ {locator_name, streaming_locator_name} \cap locators # {}
    \/ policy # NoState /\ policy = token_sign_key
    \/ live_event # "absent"
    \/ live_outputs # {}

\* C6 (as stated): when run completes normally (it returns, and nothing was
\* raised on the way), every resource it created has been deleted, in all
\* three scripts.
C6_NothingLeftBehind ==
    (pc = "done" /\ try_exc = "none") => ~Leftover

\* C10 (as stated): in the live run an ApiErrorException raised in the try
\* block is caught, both cleanup operations of the finally block are attempted
\* and run returns; any other exception leaves run after the cleanup was
\* attempted.
C10_ErrorHandling ==
    (script = "live" /\ EndOfRun) =>
        /\ try_exc = "ApiError" =>
               caught /\ ret = "clean_up_locator" /\ n_clean_locator = 1 /\ pc = "done"
        /\ try_exc = "Other" =>
               ret = "clean_up_locator" /\ pc = "raised" /\ exc = "Other"

\* C10 (amended): the clean_up_live_event_and_live_output of the finally block
\* is attempted in every live run, and clean_up_locator_and_asset exactly when
\* it returns. An ApiErrorException of the try block is caught, and run returns
\* exactly when no cleanup of the finally block raises. With any other
\* exception of the try block an exception leaves run: that one when no cleanup
\* raises, the cleanup's otherwise.
C10_ErrorHandlingBestEffort ==
    (script = "live" /\ EndOfRun) =>
        /\ ret = "clean_up_locator" /\ n_clean_event >= 1
        /\ n_clean_locator = 1 <=> raised_at # "clean_up_live_event"
        /\ try_exc = "ApiError" => (caught /\ (pc = "done" <=> raised_at = "none"))
        /\ try_exc = "Other" =>
               /\ ~caught
               /\ pc = "raised"
               /\ exc # "none"
               /\ raised_at = "none" => exc = "Other"

C10_Witness ==
    /\ script = "live" /\ pc = "done"
    /\ try_exc = "ApiError" /\ caught /\ n_clean_locator = 1

\* the invocation of create_output_asset that issued call i of the log
Invocation(i) ==
    Cardinality({j \in 1 .. i : calls[j].op = "assets.get" /\ calls[j].res = "ok"})

IsProperPrefix(s, t) ==
    Len(s) < Len(t) /\ SubSeq(t, 1, Len(s)) = s

\* C7: create_output_asset creates the asset under the requested name when
\* assets.get found none; when it found one, under the requested name with a
\* suffix appended, with no create_or_update of the requested name; and it
\* returns the asset under the name it used.
C7_OutputAssetFallback ==
    /\ \A k \in DOMAIN coa :
         IF coa[k].found
         THEN IsProperPrefix(coa[k].requested, coa[k].target)
         ELSE coa[k].target = coa[k].requested
    /\ \A i \in DOMAIN calls :
         (calls[i].op = "assets.get" /\ calls[i].res = "ok") =>
             /\ i < Len(calls)
             /\ calls[i + 1].op = "assets.create_or_update"
             /\ calls[i].arg = coa[Invocation(i)].requested
             /\ calls[i + 1].arg = coa[Invocation(i)].target
             /\ coa[Invocation(i)].found =>
                    \A j \in i + 1 .. Len(calls) :
                        calls[j].op = "assets.create_or_update" => calls[j].arg # calls[i].arg
    /\ pc = "submit_job" =>
           output_asset = coa[Len(coa)].target /\ output_asset \in assets

C7_Witness ==
    pc = "submit_job" /\ coa[1].found /\ output_asset = output_asset_name \o StrUniqueness(0)

ReservedClaims == {"iss", "aud", "nbf", "exp"}

\* the token is the one the claim describes
TokenAsClaimed ==
    LET payload == token.payload
    IN  /\ {"iss", "aud", claim_type, "nbf", "exp"} \subseteq DOMAIN payload
        /\ payload["iss"] = Str(<<Issuer>>)
        /\ payload["aud"] = Str(<<Audience>>)
        /\ payload[claim_type] = Str(key_identifier)
        /\ payload["nbf"] = Time(token.now[1] - 300)
        /\ payload["exp"] = Time(token.now[2] + 3600)
        /\ payload["nbf"].time < payload["exp"].time
        /\ token.alg = "HS256"
        /\ token.key = token_sign_key

\* C9 (as stated): the payload of the token run built holds the issuer, the
\* audience, the claim type mapped to the key identifier, nbf five minutes
\* before and exp one hour after the time read, and is signed with HS256 and
\* the signing key of the run.
C9_TokenContents ==
    token # NoToken => TokenAsClaimed

\* C9 (amended): the same, for a configured claim type that is none of iss,
\* aud, nbf and exp.
C9_TokenContentsUnlessReserved ==
    (token # NoToken /\ claim_type \notin ReservedClaims) => TokenAsClaimed

C9_Witness ==
    /\ pc = "get_dash_streaming_url"
    /\ claim_type \notin ReservedClaims
    /\ token.now[2] > token.now[1]
    /\ token.key = "k2"

\* C11: in the analyze and encrypt runs no exception is caught: a call that
\* raised is the last call of the run, run has stopped there with that
\* exception leaving it, and from then on the run issues no call and takes no
\* step (so that no failed call is issued again).
C11_Propagates ==
    /\ [](script # "live" =>
             /\ ~caught
             /\ exc # "none" <=> pc = "raised"
             /\ pc = "raised" => raised_at # "none"
             /\ \A i \in DOMAIN calls :
                    calls[i].res # "ok" =>
                        i = Len(calls) /\ pc = "raised" /\ exc = calls[i].res)
    /\ [][(script # "live" /\ pc = "raised") =>
              UNCHANGED <<control, calls, poll, locals, counts>>]_vars

C11_Witness ==
    /\ script = "encrypt" /\ pc = "raised" /\ exc = "ApiError"
    /\ raised_at = "create_streaming_locator"
    /\ calls[Len(calls)].op = "streaming_locators.create"
    /\ calls[Len(calls)].res = "ApiError"

\* the calls of the log with this operation and this name
CallsOf(op, name) ==
    {i \in DOMAIN calls : calls[i].op = op /\ calls[i].arg = name}

\* C12: get_or_create_transform issues transforms.create_or_update if and only
\* if transforms.get returned no transform of the name; a transform that exists
\* is never modified; a call that returned leaves a transform of the name; so
\* consecutive calls with one name issue at most one create_or_update, and the
\* transform the first call left is the transform after every later call.
C12_TransformIdempotent ==
    /\ [][\A i \in DOMAIN calls' \ DOMAIN calls :
             LET c == calls'[i]
             IN  /\ (c.op = "transforms.get" /\ c.res = "ok") =>
                        ((/\ i < Len(calls')
                          /\ calls'[i + 1].op = "transforms.create_or_update"
                          /\ calls'[i + 1].arg = c.arg)
                            <=> c.arg \notin DOMAIN transforms)
                 /\ c.op = "transforms.create_or_update" =>
                        /\ i > 1
                        /\ calls'[i - 1] = Call("transforms.get", c.arg, "ok")
                        /\ c.arg \notin DOMAIN transforms]_vars
    /\ [][\A n \in DOMAIN transforms :
             n \in DOMAIN transforms' /\ transforms'[n] = transforms[n]]_vars
    /\ [](\A n \in TransformNames :
             /\ Cardinality(CallsOf("transforms.create_or_update", n)) <= 1
             /\ (pc # "raised" /\ CallsOf("transforms.get", n) # {}) => n \in DOMAIN transforms)

C12_Witness ==
    /\ pc = "get_or_create_transform"
    /\ calls = << Call("transforms.get", transform_name, "ok"),
                  Call("transforms.create_or_update", transform_name, "ok"),
                  Call("transforms.get", transform_name, "ok") >>
    /\ DOMAIN transforms = {transform_name}
    /\ transforms[transform_name] = Preset

\* the place of a call in the pipeline, the transform being step transform_step
\* and the input asset and its upload the two other steps of 1 .. 3
PipelineStep(c, transform_step) ==
    LET asset_step == IF transform_step = 1 THEN 2 ELSE 1
    IN  CASE c.op \in {"transforms.get", "transforms.create_or_update"} -> transform_step
          [] c.op = "assets.create_or_update" ->
                 IF c.arg = input_asset_name THEN asset_step ELSE 4
          [] c.op = "assets.list_container_sas" ->
                 IF c.arg = input_asset_name THEN asset_step + 1 ELSE 7
          [] c.op = "create_blob_from_path" -> asset_step + 1
          [] c.op = "assets.get" -> 4
          [] c.op = "jobs.create" -> 5
          [] c.op \in {"list_blobs", "content_key_policies.get",
                       "content_key_policies.create_or_update"} -> 7
          [] c.op = "streaming_locators.create" -> 8
          [] c.op \in {"streaming_endpoints.get", "streaming_endpoints.start",
                       "streaming_locators.list_paths"} -> 9
          [] OTHER -> 10

\* The calls of the run are issued in the order of their steps: the first call
\* is of step 1, a call is of the step of the call before it or of a later one,
\* a later one only after the call before it returned, and up to the
\* submission (step 5) of the very next one; the poll (step 6) comes after the
\* submission, and the later steps after the poll returned.
PipelineInOrder(transform_step) ==
    script # "live" =>
        /\ \A j \in DOMAIN calls :
               LET s == PipelineStep(calls[j], transform_step)
                   before == IF j = 1 THEN 0 ELSE PipelineStep(calls[j - 1], transform_step)
               IN  /\ before <= s
                   /\ (before < s /\ j > 1) => calls[j - 1].res = "ok"
                   /\ before < 5 => s <= before + 1
                   /\ s > 5 => job \in TerminalStates
                   /\ Polling => s <= 5
        /\ (Polling \/ gets > 0) =>
               \/ calls # << >> /\ calls[Len(calls)].op = "jobs.create"
               \/ job \in TerminalStates

\* C13 (as stated): the calls of an analyze or encrypt run are issued in the
\* order create input asset, upload blob, create/get transform, (output
\* asset,) submit job, poll, then locator, playback URL, clean up: the
\* transform is the third step.
C13_PipelineOrder == PipelineInOrder(3)

\* C13 (amended): the same order with the transform first: get or create the
\* transform, create the input asset, upload the blob, then as stated.
C13_PipelineOrderTransformFirst == PipelineInOrder(1)

C13_Witness ==
    /\ script = "encrypt" /\ pc = "done" /\ job = "finished"
    /\ \E i \in DOMAIN calls : calls[i].op = "transforms.create_or_update"
    /\ \E i \in DOMAIN calls : calls[i].op = "streaming_endpoints.start"

\* the calls by which a cleanup stops or deletes a resource
CleanupOps ==
    {"jobs.delete", "streaming_locators.delete", "assets.delete",
     "content_key_policies.delete", "live_events.stop", "live_events.delete"}

\* cleanup has been reached: a cleanup operation was invoked, or one of its
\* stop or delete calls issued
CleanupReached ==
    \/ n_clean_up >= 1
    \/ n_clean_event >= 1
    \/ \E i \in DOMAIN calls : calls[i].op \in CleanupOps

\* C14 (as stated): in the encrypt and live scripts a run that reaches cleanup
\* has performed exactly one console pause, and performed it before any
\* cleanup stop or delete call.
C14_OnePauseBeforeCleanup ==
    (script \in {"encrypt", "live"} /\ CleanupReached) => pauses = 1

\* C14 (amended): an encrypt run that reaches cleanup has performed exactly
\* one pause, before any cleanup call. A live run pauses only after it found
\* streaming paths: once before its first cleanup call and, when the cleanup
\* inside the try block returned, a second time before the cleanup of the
\* finally block; a live run that found no paths reaches cleanup with no pause.
C14_PausesBeforeCleanup ==
    /\ (script = "encrypt" /\ CleanupReached) => pauses = 1
    /\ script = "live" =>
           /\ pauses \in 0 .. 2
           /\ ~paths => pauses = 0
           /\ (paths /\ CleanupReached) => pauses >= 1
           /\ pauses = 2 => n_clean_event >= 1
           /\ (paths /\ n_clean_event = 2 /\ try_exc = "none") => pauses = 2
           /\ (EndOfRun /\ ~paths) => CleanupReached

C14_Witness ==
    /\ script = "live" /\ pc = "done" /\ paths /\ pauses = 2
    /\ \E i \in DOMAIN calls : calls[i].op = "live_events.stop" /\ calls[i].res = "ok"

\* the place of a position, and of a delete call, in the pass of clean_up:
\* jobs, streaming locators, assets, content key policy
CleanUpStage(p) ==
    CASE p \in {"clean_up", "clean_up_jobs"}       -> 1
      [] p \in {"clean_up_2", "clean_up_locators"} -> 2
      [] p \in {"clean_up_3", "clean_up_assets"}   -> 3
      [] p = "clean_up_4"                          -> 4
      [] OTHER                                     -> 0

DeleteStage(op) ==
    CASE op = "jobs.delete"                 -> 1
      [] op = "streaming_locators.delete"   -> 2
      [] op = "assets.delete"               -> 3
      [] op = "content_key_policies.delete" -> 4
      [] OTHER                              -> 0

CleanUpCalls ==
    {"jobs.list", "jobs.delete", "streaming_locators.list", "streaming_locators.delete",
     "assets.list", "assets.delete", "content_key_policies.delete"}

\* a call of this operation returned
Returned(op) == \E i \in DOMAIN calls : calls[i].op = op /\ calls[i].res = "ok"

\* the first call of the last invocation of clean_up_live_event_and_live_output
LastLiveEventGet ==
    CHOOSE i \in DOMAIN calls :
        /\ calls[i].op = "live_events.get"
        /\ \A j \in i + 1 .. Len(calls) : calls[j].op # "live_events.get"

\* C15, the clean_up of encrypt: a call of the pass that fails is its last
\* call and its exception leaves run; no delete of a later step was issued, and
\* what the remaining deletes were for is still there.
C15_CleanUpStops ==
    script = "encrypt" =>
        /\ \A i \in DOMAIN calls :
               (calls[i].op \in CleanUpCalls /\ calls[i].res # "ok") =>
                   /\ i = Len(calls) /\ pc = "raised" /\ exc = calls[i].res
                   /\ CleanUpStage(raised_at) > 0
        /\ (pc = "raised" /\ CleanUpStage(raised_at) > 0) =>
               LET k == CleanUpStage(raised_at)
               IN  /\ \A i \in DOMAIN calls : DeleteStage(calls[i].op) <= k
                   /\ raised_at = "clean_up" => job_name \in DOMAIN jobs
                   /\ raised_at = "clean_up_jobs" => (todo # {} /\ todo \subseteq DOMAIN jobs)
                   /\ raised_at = "clean_up_locators" => (todo # {} /\ todo \subseteq locators)
                   /\ raised_at = "clean_up_assets" => (todo # {} /\ todo \subseteq assets)
                   /\ (k < 2 /\ job = "finished") => locator_name \in locators
                   /\ k < 3 => {input_asset_name, output_asset} \subseteq assets
                   /\ job = "finished" => policy # NoState

\* C15, the finally block of live: the same for its pass, the calls from the
\* live_events.get of its clean_up_live_event_and_live_output on.
C15_FinallyStops ==
    (script = "live" /\ ret = "clean_up_locator" /\ pc # "clean_up_live_event") =>
        LET last == calls[Len(calls)]
            pass == LastLiveEventGet .. Len(calls)
            remain == /\ Returned("streaming_locators.create") =>
                             streaming_locator_name \in locators
                      /\ Returned("assets.create_or_update") => asset_name \in assets
        IN  /\ \A i \in pass :
                   calls[i].res # "ok" =>
                       /\ i = Len(calls) /\ pc = "raised" /\ exc = calls[i].res
                       /\ raised_at \in {"clean_up_live_event", "clean_up_locator"}
            /\ (pc = "raised" /\ raised_at = "clean_up_live_event") =>
                   /\ n_clean_locator = 0
                   /\ \A i \in pass :
                          calls[i].op \notin {"streaming_locators.delete", "assets.delete"}
                   /\ last.op # "live_events.delete" =>
                          \A i \in pass : calls[i].op # "live_events.delete"
                   /\ (Returned("live_events.create") /\ ~Returned("live_events.delete")) =>
                          live_event # "absent"
                   /\ remain
            /\ (pc = "raised" /\ raised_at = "clean_up_locator") =>
                   /\ last.op = "streaming_locators.delete" =>
                          (remain /\ \A i \in pass : calls[i].op # "assets.delete")
                   /\ last.op = "assets.delete" =>
                          (Returned("assets.create_or_update") => asset_name \in assets)

\* C15: a call that fails partway through a cleanup pass (the clean_up of
\* encrypt, the finally block of live) ends the pass: the remaining deletions
\* are not attempted, the resources they target remain, and the exception
\* propagates.
C15_CleanupNotAtomic == C15_CleanUpStops /\ C15_FinallyStops

C15_Witness ==
    /\ script = "encrypt" /\ pc = "raised" /\ raised_at = "clean_up_locators"
    /\ job = "finished" /\ Returned("jobs.delete")
    /\ calls[Len(calls)].op = "streaming_locators.delete"
    /\ calls[Len(calls)].res = "ApiError"
    /\ locator_name \in locators

\* C16 (as stated): when the encrypt run has issued its playback token, the
\* content key policy named in the streaming locator holds as its verification
\* key the key of the run that signed the token, also when a policy of the
\* configured name existed before the run.
C16_SigningKeyAgreement ==
    (script = "encrypt" /\ pc = "get_dash_streaming_url") =>
        /\ token.key = token_sign_key
        /\ policy = token.key

\* a call of the steps that follow the job: the download of analyze, the
\* content key policy, streaming locator and playback URL of encrypt
PostJobCall(c) ==
    \/ c.op \in {"list_blobs", "content_key_policies.get",
                  "content_key_policies.create_or_update", "streaming_locators.create",
                  "streaming_endpoints.get", "streaming_endpoints.start",
                  "streaming_locators.list_paths"}
    \/ c.op = "assets.list_container_sas" /\ c.arg # input_asset_name

\* run is past the test of the state of the job the poll returned
AfterJobTest ==
    script # "live" /\ job \in TerminalStates /\ pc # "job_returned"

\* C17: the steps after the job are taken if and only if the poll returned a
\* finished job: a call of them, or a token, only with a finished job; with a
\* finished job they are started, and all of them taken when none raises; with
\* error or canceled the analyze run ends and the encrypt run goes on to its
\* pause and from it to clean_up, as it does after the steps of a finished job.
C17_GatedOnFinished ==
    script # "live" =>
        /\ ((\E i \in DOMAIN calls : PostJobCall(calls[i])) \/ token # NoToken) =>
               (job = "finished" /\ AfterJobTest)
        /\ (AfterJobTest /\ job = "finished") =>
               \/ pc \in {"download_output_asset", "get_or_create_content_key_policy"}
               \/ \E i \in DOMAIN calls : PostJobCall(calls[i])
        /\ (AfterJobTest /\ job = "finished" /\ exc = "none" /\ pc \in {"pause", "done"}) =>
               IF script = "analyze"
               THEN Returned("list_blobs")
               ELSE /\ Returned("content_key_policies.get")
                    /\ Returned("streaming_locators.create")
                    /\ token # NoToken
                    /\ Returned("streaming_locators.list_paths")
        /\ (AfterJobTest /\ job # "finished" /\ script = "analyze") => pc = "done"
        /\ (AfterJobTest /\ script = "encrypt" /\ (job # "finished" \/ pc = "done")) =>
               \/ pc = "pause" /\ pauses = 0
               \/ pauses = 1 /\ (raised_at = "pause" \/ pc = "clean_up" \/ n_clean_up = 1)

C17_Witness ==
    /\ script = "encrypt" /\ pc = "done" /\ job = "canceled"
    /\ pauses = 1 /\ n_clean_up = 1
    /\ Returned("content_key_policies.delete")

\* C18: a job is submitted only after the input asset was created and its blob
\* uploaded and right after create_output_asset returned; its input is that
\* input asset and its output the asset create_output_asset created (under the
\* fallback name after a collision); the download of analyze and the streaming
\* locator of encrypt use the same output asset name.
C18_JobWiring ==
    script # "live" =>
        \A j \in DOMAIN calls :
            LET c == calls[j]
                submitted == {i \in 1 .. j - 1 : calls[i].op = "jobs.create"}
                out == calls[CHOOSE i \in submitted : TRUE].arg[3]
            IN  /\ c.op = "jobs.create" =>
                       /\ \E i \in 1 .. j - 1 :
                              calls[i] = Call("assets.create_or_update", input_asset_name, "ok")
                       /\ \E i \in 1 .. j - 1 :
                              calls[i] = Call("create_blob_from_path", input_asset_name, "ok")
                       /\ coa # << >> /\ coa[Len(coa)].created
                       /\ calls[j - 1] = Call("assets.create_or_update", coa[Len(coa)].target, "ok")
                       /\ c.arg = <<job_name, input_asset_name, coa[Len(coa)].target>>
                       /\ IF coa[Len(coa)].found
                          THEN IsProperPrefix(output_asset_name, c.arg[3])
                          ELSE c.arg[3] = output_asset_name
                       /\ submitted = {}
                /\ (c.op = "list_blobs" \/
                    (c.op = "assets.list_container_sas" /\ c.arg # input_asset_name)) =>
                       (submitted # {} /\ c.arg = out)
                /\ c.op = "streaming_locators.create" =>
                       (submitted # {} /\ c.arg[1] = locator_name /\ c.arg[2] = out)

C18_Witness ==
    /\ script = "encrypt" /\ pc = "get_token"
    /\ coa[1].found
    /\ \E i \in DOMAIN calls :
           /\ calls[i].op = "streaming_locators.create"
           /\ calls[i].arg[2] = output_asset_name \o StrUniqueness(0)

\* C19 (as stated): the asset, the streaming locator and the job of the
\* transform that were in the account before the run, under names the run does
\* not use, are left as they were by every step of the run, clean_up included.
C19_OnlyOwnResourcesDeleted ==
    [][/\ OldAsset \in assets => OldAsset \in assets'
       /\ OldLocator \in locators => OldLocator \in locators'
       /\ OldJob \in DOMAIN jobs =>
              (OldJob \in DOMAIN jobs' /\ jobs'[OldJob] = jobs[OldJob])]_vars

\* C20: no step of any of the three scripts deletes a transform: no transform
\* delete is ever issued, a transform of the account stays as it is through
\* every step, and a transform get_or_create_transform created is there at
\* every later point of the run, after clean_up too.
C20_TransformsKept ==
    /\ [](\A i \in DOMAIN calls : calls[i].op # "transforms.delete")
    /\ [][\A n \in DOMAIN transforms :
             n \in DOMAIN transforms' /\ transforms'[n] = transforms[n]]_vars
    /\ [](Returned("transforms.create_or_update") => transform_name \in DOMAIN transforms)
    /\ []((script # "live" /\ pc \notin {"run", "get_or_create_transform", "raised"}) =>
              transform_name \in DOMAIN transforms)

C20_Witness ==
    /\ script = "encrypt" /\ pc = "done" /\ n_clean_up = 1
    /\ Returned("transforms.create_or_update")
    /\ Returned("content_key_policies.delete")
    /\ transform_name \in DOMAIN transforms

\* the calls a step adds to the log
NewCalls == SubSeq(calls', Len(calls) + 1, Len(calls'))

\* the resource states in which live_events.get returns the event
ExistingEventStates == {"starting", "running", "stopped"}

\* C21: an invocation of clean_up_live_event_and_live_output whose
\* live_events.get returned issues live_events.delete if and only if the get
\* returned an event (and no stop before it raised), and live_events.stop,
\* before that delete, if and only if that event is running; for an event that
\* is not there it issues neither and changes nothing, so that an invocation
\* after one that deleted the event issues the get alone.
C21_LiveEventCleanupSteps ==
    /\ [][(/\ script = "live"
            /\ NewCalls # << >>
            /\ NewCalls[1] = Call("live_events.get", live_event_name, "ok")) =>
              LET found   == live_event \in ExistingEventStates
                  running == live_event = "running"
                  stop    == {i \in DOMAIN NewCalls : NewCalls[i].op = "live_events.stop"}
                  delete  == {i \in DOMAIN NewCalls : NewCalls[i].op = "live_events.delete"}
              IN  /\ stop # {} <=> (found /\ running)
                  /\ stop \subseteq {2}
                  /\ delete # {} <=> (found /\ \A i \in stop : NewCalls[i].res = "ok")
                  /\ delete \subseteq {Len(NewCalls)}
                  /\ Len(NewCalls) = 1 + Cardinality(stop) + Cardinality(delete)
                  /\ ~found => (Len(NewCalls) = 1 /\ UNCHANGED remote)
                  /\ \A i \in delete :
                         NewCalls[i].res = "ok" => (live_event' = "absent" /\ live_outputs' = {})]_vars
    /\ [](\A i \in DOMAIN calls :
             (calls[i] = Call("live_events.delete", live_event_name, "ok")) =>
                 \A j \in i + 1 .. Len(calls) :
                     calls[j].op \notin {"live_events.stop", "live_events.delete"})

C21_Witness ==
    /\ script = "live" /\ pc = "clean_up_locator" /\ n_clean_event = 2
    /\ Returned("live_events.stop") /\ Returned("live_events.delete")
    /\ calls[Len(calls)] = Call("live_events.get", live_event_name, "ok")
    /\ live_event = "absent"

\* the call that creates what a delete call of the live cleanup deletes
CreateOf(op) ==
    CASE op = "live_events.delete"        -> "live_events.create"
      [] op = "streaming_locators.delete" -> "streaming_locators.create"
      [] op = "assets.delete"             -> "assets.create_or_update"
      [] OTHER                            -> "none"

\* C22 (as stated): every delete call of the cleanup of a live run comes after
\* a create call of the same run, for the same kind of resource, that
\* returned: the streaming locator and the archive asset are deleted only
\* after they were created.
C22_DeletesOnlyCreated ==
    script = "live" =>
        \A j \in DOMAIN calls :
            CreateOf(calls[j].op) # "none" =>
                \E i \in 1 .. j - 1 :
                    calls[i].op = CreateOf(calls[j].op) /\ calls[i].res = "ok"

\* C23: after create_live_event returned, the live run fetches the live event
\* again and again with one sleep between two fetches; a fetch ends the loop
\* exactly when it returns an event, and is followed by the sleep and the next
\* fetch when it returns none, so that the loop is never left while no event is
\* returned; the endpoints are read only on leaving the loop, from an event
\* that is there.
C23_LiveEventPoll ==
    /\ [](script = "live" =>
             /\ pc \in {"live_event_get", "live_event_sleep", "live_event_endpoints"} =>
                    Returned("live_events.create")
             /\ pc = "live_event_get" => (gets < MaxCount => gets = sleeps)
             /\ pc = "live_event_sleep" => (gets < MaxCount => gets = sleeps + 1)
             /\ pc = "live_event_endpoints" =>
                    /\ live_event \in ExistingEventStates
                    /\ gets >= 1
                    /\ gets < MaxCount => gets = sleeps + 1)
    /\ [][(script = "live" /\ pc = "live_event_get" /\ pc' # pc) =>
              /\ pc' = "live_event_endpoints" => live_event \in ExistingEventStates
              /\ pc' = "live_event_sleep" => live_event \notin ExistingEventStates
              /\ pc' \notin {"live_event_endpoints", "live_event_sleep"} => exc' # "none"
              /\ gets' = Sat(gets) /\ sleeps' = sleeps]_vars
    /\ [][(script = "live" /\ pc = "live_event_sleep" /\ pc' # pc) =>
              (pc' = "live_event_get" /\ sleeps' = Sat(sleeps) /\ gets' = gets)]_vars
    /\ [][(script = "live" /\ pc' = "live_event_endpoints" /\ pc' # pc) =>
              pc = "live_event_get"]_vars

C23_Witness ==
    /\ script = "live" /\ pc = "live_event_endpoints"
    /\ gets = 3 /\ sleeps = 2
    /\ live_event = "starting"

\* C24: in the live run the archive asset is created only after create_live_event
\* returned and the live event was fetched and found; the live output is created
\* only after the archive asset and names that asset; the streaming locator is
\* created only after the live output; list_paths is called only after the
\* locator was created and the default streaming endpoint was fetched, with the
\* endpoint running, a start having been issued and returned in the same step
\* when the fetch found it not running, and never when it was running.
C24_LiveOrdering ==
    /\ [](script = "live" =>
             \A j \in DOMAIN calls :
                 LET before(op) == \E i \in 1 .. j - 1 : calls[i].op = op /\ calls[i].res = "ok"
                     c == calls[j]
                 IN  /\ c.op = "assets.create_or_update" =>
                            (c.arg = asset_name /\ before("live_events.create"))
                     /\ c.op = "live_outputs.create" =>
                            /\ before("assets.create_or_update")
                            /\ c.arg = <<live_event_name, live_output_name, asset_name>>
                     /\ c.op = "streaming_locators.create" =>
                            /\ before("live_outputs.create")
                            /\ c.arg = <<streaming_locator_name, asset_name>>
                     /\ c.op = "streaming_endpoints.start" =>
                            /\ j > 1
                            /\ calls[j - 1] = Call("streaming_endpoints.get", DefaultStreamingEndpointName, "ok")
                     /\ c.op = "streaming_locators.list_paths" =>
                            /\ c.arg = streaming_locator_name
                            /\ before("streaming_locators.create")
                            /\ before("streaming_endpoints.get")
                            /\ \A i \in 1 .. j - 1 : calls[i].op = "streaming_endpoints.start" => calls[i].res = "ok")
    /\ [][(script = "live" /\ NewCalls # << >>) =>
              /\ NewCalls[1].op = "assets.create_or_update" =>
                     (live_event \in ExistingEventStates /\ gets >= 1)
              /\ NewCalls[1].op = "streaming_endpoints.get" =>
                     /\ (Len(NewCalls) = 2 /\ NewCalls[2].op = "streaming_endpoints.start") <=>
                            (NewCalls[1].res = "ok" /\ endpoint \notin {NoState, "running"})
                     /\ Len(NewCalls) <= 2
                     /\ pc' = "list_paths" <=>
                            (/\ NewCalls[1].res = "ok" /\ endpoint # NoState
                             /\ NewCalls[Len(NewCalls)].res = "ok")
                     /\ pc' = "list_paths" => endpoint' = "running"
              /\ NewCalls[1].op = "streaming_locators.list_paths" =>
                     (endpoint = "running" /\ pc = "list_paths")]_vars

C24_Witness ==
    /\ script = "live"
    /\ Returned("streaming_endpoints.start")
    /\ Returned("streaming_locators.list_paths")
    /\ endpoint = "running"

====
